---- MODULE Spec2Model ----
(***************************************************************************)
(* The error-handling examples of src/errorsHandling.ts as a state machine *)
(* ApiError / apiRequest, ErrorBoundary / runWithBoundary and withRetry /  *)
(* fetchUserWithRetry.  One top-level operation runs per behaviour; the    *)
(* environment (fetch, the wrapped fn, timers) is nondeterministic.        *)
(***************************************************************************)
EXTENDS Integers, Sequences, FiniteSets, TLC

VARIABLES
  op,         \* the top-level operation that was invoked ("none" before)
  pc,         \* position inside the running operation
  options,    \* withRetry: the RetryOptions argument
  attempt,    \* withRetry: the loop variable
  lastError,  \* withRetry: the local lastError
  events,     \* observable effects in order: fn/fetch invocations, logs, timers, handler calls
  response,   \* apiRequest / fetchData: the Response fetch resolved with
  result,     \* runWithBoundary: the local result (value boundary.run resolved with)
  settled,    \* how the top-level operation settled (promise) or completed (return/throw)
  input,      \* the arguments of the running synchronous function
  count,      \* the static field Container.count
  balance     \* the private field balance of the module's BankAccount, account

vars ==
  <<op, pc, options, attempt, lastError, events, response, result, settled,
    input, count, balance>>

(***************************************************************************)
(* Bounds of the model.                                                    *)
(***************************************************************************)
MaxRetriesBound == 3
\* operands of the divisions are the integers -MaxOperand..MaxOperand
MaxOperand == 3
\* number of calls made on the module's objects in one behaviour
MaxCalls == 3

(***************************************************************************)
(* JavaScript values.                                                      *)
(***************************************************************************)
Undefined == [type |-> "undefined"]
Null == [type |-> "null"]
Bool(b) == [type |-> "boolean", b |-> b]
Num(n) == [type |-> "number", n |-> n]
Str(s) == [type |-> "string", s |-> s]
\* a parsed JSON object; code and message are its properties of those names
\* (Undefined when the object has no such property)
Obj(code, message) == [type |-> "object", code |-> code, message |-> message]

\* new Error(message) and the built-in subclasses thrown by the runtime
\* (TypeError by fetch and by a property read on null, SyntaxError by JSON parsing);
\* id tells apart two error objects with equal fields
NewError(cls, message, id) ==
  [type |-> "error", cls |-> cls, message |-> message, id |-> id]

\* new ApiError(status, code, message)
NewApiError(status, code, message, id) ==
  [type |-> "error", cls |-> "ApiError", status |-> status, code |-> code,
   message |-> message, id |-> id]

\* error instanceof Error
InstanceofError(v) == v.type = "error"

\* error instanceof ApiError
InstanceofApiError(v) == v.type = "error" /\ v.cls = "ApiError"

\* ToBoolean, as applied by if (...) and ||
Truthy(v) ==
  CASE v.type = "undefined" -> FALSE
    [] v.type = "null" -> FALSE
    [] v.type = "boolean" -> v.b
    [] v.type = "number" -> v.n # 0
    [] v.type = "string" -> v.s # ""
    [] OTHER -> TRUE

\* a || b
OrElse(a, b) == IF Truthy(a) THEN a ELSE b

Digit(d) ==
  CASE d = 0 -> "0" [] d = 1 -> "1" [] d = 2 -> "2" [] d = 3 -> "3" [] d = 4 -> "4"
    [] d = 5 -> "5" [] d = 6 -> "6" [] d = 7 -> "7" [] d = 8 -> "8" [] d = 9 -> "9"

RECURSIVE NatToString(_)
NatToString(n) == IF n < 10 THEN Digit(n) ELSE NatToString(n \div 10) \o Digit(n % 10)

\* String(v) and template-literal interpolation of v
String(v) ==
  CASE v.type = "undefined" -> "undefined"
    [] v.type = "null" -> "null"
    [] v.type = "boolean" -> (IF v.b THEN "true" ELSE "false")
    [] v.type = "number" -> (IF v.n < 0 THEN "-" \o NatToString(0 - v.n) ELSE NatToString(v.n))
    [] v.type = "string" -> v.s
    [] v.type = "error" -> (IF v.message = "" THEN v.cls ELSE v.cls \o ": " \o v.message)
    [] OTHER -> "[object Object]"

(***************************************************************************)
(* Numbers with a fractional part (backoffFactor: 1.5) are kept as exact   *)
(* fractions num/den with den > 0.                                         *)
(***************************************************************************)
Frac(n, d) == [num |-> n, den |-> d]
FracMul(a, b) == Frac(a.num * b.num, a.den * b.den)
FracEq(a, b) == a.num * b.den = b.num * a.den
FracLeq(a, b) == a.num * b.den <= b.num * a.den

\* Math.pow(base, e) for an integer e >= 0
RECURSIVE MathPow(_, _)
MathPow(base, e) == IF e = 0 THEN Frac(1, 1) ELSE FracMul(base, MathPow(base, e - 1))

(***************************************************************************)
(* State of the module after loading: c1 and c2 were constructed           *)
(* (generics.ts) and account was opened with 1000 (classes&interface.ts).  *)
(***************************************************************************)
ContainersAtLoad == 2
InitialBalance == 1000

(***************************************************************************)
(* Promise outcomes.                                                       *)
(***************************************************************************)
Pending == [state |-> "pending", value |-> Undefined]
Fulfilled(v) == [state |-> "fulfilled", value |-> v]
Rejected(e) == [state |-> "rejected", value |-> e]

(***************************************************************************)
(* The fetch environment: what fetch(url) can settle with.                 *)
(***************************************************************************)
\* HTTP statuses of the responses; Response.ok is true for 200..299
Statuses == {200, 404, 500, 503}

\* property values of a JSON error payload
PayloadCodes == {Undefined, Str(""), Str("NOT_FOUND")}
PayloadMessages == {Undefined, Str("boom")}

\* what the body text parses to
JsonValues ==
  {Null, Num(0), Num(7), Bool(FALSE), Bool(TRUE), Str(""), Str("text")}
    \cup {Obj(c, m) : c \in PayloadCodes, m \in PayloadMessages}

\* a response body: text that parses to a JSON value, or text that does not parse
Bodies == {[kind |-> "json", value |-> v] : v \in JsonValues} \cup {[kind |-> "invalid"]}

Responses ==
  {[ok |-> (s >= 200 /\ s <= 299), status |-> s, body |-> b] : s \in Statuses, b \in Bodies}

NoResponse == [ok |-> FALSE, status |-> 0, body |-> [kind |-> "none"]]

\* rejections of fetch: a network failure (TypeError) or an abort with the
\* caller's reason, which need not be an Error
FetchErrors == {NewError("TypeError", "Failed to fetch", 0), Str("aborted")}

FetchOutcomes == {Fulfilled(r) : r \in Responses} \cup {Rejected(e) : e \in FetchErrors}

\* response.json()
ResponseJson(resp) ==
  IF resp.body.kind = "json"
    THEN Fulfilled(resp.body.value)
    ELSE Rejected(NewError("SyntaxError", "Unexpected token in JSON", 0))

\* whether reading a property of v throws a TypeError
PropertyReadThrows(v) == v.type \in {"null", "undefined"}

\* v.code and v.message: the property of an object, undefined on a primitive
PropCode(v) == IF v.type = "object" THEN v.code ELSE Undefined
PropMessage(v) == IF v.type = "object" THEN v.message ELSE Undefined

(***************************************************************************)
(* ApiError.fromResponse                                                   *)
(***************************************************************************)
\* payload after the try/catch around response.json(): {} when parsing failed
FromResponsePayload(resp) ==
  LET parsed == ResponseJson(resp)
  IN IF parsed.state = "fulfilled" THEN parsed.value ELSE Obj(Undefined, Undefined)

\* the promise fromResponse returns
FromResponse(resp) ==
  LET payload == FromResponsePayload(resp)
  IN IF PropertyReadThrows(payload)
       THEN Rejected(NewError("TypeError", "Cannot read properties of null", 0))
       ELSE Fulfilled(NewApiError(
              resp.status,
              OrElse(PropCode(payload), Str("UNKNOWN_ERROR")).s,
              OrElse(PropMessage(payload), Str("HTTP error " \o String(Num(resp.status)))).s,
              0))

(***************************************************************************)
(* apiRequest                                                              *)
(***************************************************************************)
\* variant: the catch block re-throws whatever it caught
ApiRequestCatchRethrow(error) == Rejected(error)

\* the catch block: the rejection of apiRequest for a caught error
ApiRequestCatch(error) ==
  IF InstanceofApiError(error)
    THEN Rejected(error)
    ELSE Rejected(NewApiError(
           0, "CLIENT_ERROR",
           IF InstanceofError(error) THEN error.message ELSE "Unknown error",
           0))

\* the try block after fetch resolved with resp
ApiRequestResponse(resp) ==
  IF ~resp.ok
    THEN ApiRequestCatch(FromResponse(resp).value)
    ELSE LET parsed == ResponseJson(resp)
         IN IF parsed.state = "fulfilled" THEN parsed ELSE ApiRequestCatch(parsed.value)

\* apiRequest as a function of what fetch settles with
ApiRequest(fetched) ==
  IF fetched.state = "rejected"
    THEN ApiRequestCatch(fetched.value)
    ELSE ApiRequestResponse(fetched.value)

(***************************************************************************)
(* withRetry and fetchUserWithRetry                                        *)
(***************************************************************************)
Delays == {0, 300, 500}
BackoffFactors == {Frac(1, 2), Frac(1, 1), Frac(3, 2), Frac(2, 1)}

\* the RetryOptions withRetry is called with
RetryOptions ==
  [maxRetries : 0..MaxRetriesBound, delay : Delays, backoffFactor : BackoffFactors]

\* the default value of the options parameter
DefaultOptions == [maxRetries |-> 3, delay |-> 300, backoffFactor |-> Frac(2, 1)]

\* the options fetchUserWithRetry passes
FetchUserOptions == [maxRetries |-> 3, delay |-> 500, backoffFactor |-> Frac(3, 2)]

\* what an arbitrary fn can settle with
FnValues == {Str("v"), Num(0)}
FnErrors ==
  {NewApiError(st, "E", "api", 0) : st \in {0, 404, 500, 503}}
    \cup {NewError("Error", "plain", 0), Str("oops")}

\* what the fn of the running operation can settle with: fetchUserWithRetry
\* passes () => apiRequest(...)
FnOutcomes ==
  IF op = "fetchUserWithRetry"
    THEN {ApiRequest(f) : f \in FetchOutcomes}
    ELSE {Fulfilled(v) : v \in FnValues} \cup {Rejected(e) : e \in FnErrors}

\* number of invocations of fn so far
Calls == Cardinality({i \in DOMAIN events : events[i].ev = "fn"})

\* the error object thrown by the n-th invocation of fn
Thrown(e, n) == IF InstanceofError(e) THEN [e EXCEPT !.id = n] ELSE e

\* variant: the status test is missing
RetryableAnyApiError(error) == InstanceofApiError(error)

\* error instanceof ApiError && error.status >= 500
Retryable(error) == InstanceofApiError(error) /\ error.status >= 500

\* variant: the exponent is attempt + 1
RetryDelayNextAttempt(o, k) == FracMul(Frac(o.delay, 1), MathPow(o.backoffFactor, k + 1))

\* options.delay * Math.pow(options.backoffFactor, attempt)
RetryDelay(o, k) == FracMul(Frac(o.delay, 1), MathPow(o.backoffFactor, k))

\* variant: only the first error is kept
NextLastErrorKeepFirst(previous, error) == IF previous = Undefined THEN error ELSE previous

\* lastError = error
NextLastError(previous, error) == error

\* variant: attempt <= options.maxRetries
LoopConditionInclusive(o, k) == k <= o.maxRetries

\* for (...; attempt < options.maxRetries; ...)
LoopCondition(o, k) == k < o.maxRetries

InRetry == op \in {"withRetry", "fetchUserWithRetry"}

WithRetryCall ==
  /\ op = "none"
  /\ \E o \in RetryOptions \cup {DefaultOptions} :
       options' = o
  /\ op' = "withRetry"
  /\ pc' = "loop"
  /\ attempt' = 0
  /\ lastError' = Undefined
  /\ UNCHANGED <<events, response, result, settled>>
  /\ UNCHANGED <<input, count, balance>>

FetchUserWithRetryCall ==
  /\ op = "none"
  /\ op' = "fetchUserWithRetry"
  /\ options' = FetchUserOptions
  /\ pc' = "loop"
  /\ attempt' = 0
  /\ lastError' = Undefined
  /\ UNCHANGED <<events, response, result, settled>>
  /\ UNCHANGED <<input, count, balance>>

\* the loop test; fn() is invoked when it passes, throw lastError when it fails
WithRetryLoop ==
  /\ InRetry /\ pc = "loop"
  /\ IF LoopCondition(options, attempt)
       THEN /\ events' = Append(events, [ev |-> "fn"])
            /\ pc' = "fn"
            /\ UNCHANGED settled
       ELSE /\ settled' = Rejected(lastError)
            /\ pc' = "done"
            /\ UNCHANGED events
  /\ UNCHANGED <<op, options, attempt, lastError, response, result>>
  /\ UNCHANGED <<input, count, balance>>

\* variant: await fn() without the return, the loop goes on
WithRetryFnResolvesNoReturn ==
  /\ InRetry /\ pc = "fn"
  /\ \E r \in FnOutcomes :
       /\ r.state = "fulfilled"
       /\ events' = Append(events, [ev |-> "settled", outcome |-> r])
  /\ attempt' = attempt + 1
  /\ pc' = "loop"
  /\ UNCHANGED <<op, options, lastError, response, result, settled>>
  /\ UNCHANGED <<input, count, balance>>

\* return await fn(), fn resolved
WithRetryFnResolves ==
  /\ InRetry /\ pc = "fn"
  /\ \E r \in FnOutcomes :
       /\ r.state = "fulfilled"
       /\ events' = Append(events, [ev |-> "settled", outcome |-> r])
       /\ settled' = r
  /\ pc' = "done"
  /\ UNCHANGED <<op, options, attempt, lastError, response, result>>
  /\ UNCHANGED <<input, count, balance>>

\* the catch block, fn rejected
WithRetryFnRejects ==
  /\ InRetry /\ pc = "fn"
  /\ \E r \in FnOutcomes :
       /\ r.state = "rejected"
       /\ LET error == Thrown(r.value, Calls)
              retryDelay == RetryDelay(options, attempt)
          IN /\ lastError' = NextLastError(lastError, error)
             /\ IF Retryable(error)
                  THEN /\ events' = events \o
                            << [ev |-> "settled", outcome |-> Rejected(error)],
                               [ev |-> "console.log", text |-> "Retrying after",
                                retryDelay |-> retryDelay, attempt |-> attempt + 1,
                                maxRetries |-> options.maxRetries],
                               [ev |-> "setTimeout", ms |-> retryDelay] >>
                       /\ pc' = "sleep"
                       /\ UNCHANGED settled
                  ELSE /\ events' =
                            Append(events, [ev |-> "settled", outcome |-> Rejected(error)])
                       /\ settled' = Rejected(error)
                       /\ pc' = "done"
  /\ UNCHANGED <<op, options, attempt, response, result>>
  /\ UNCHANGED <<input, count, balance>>

\* the timer fires: continue, attempt++
WithRetryTimer ==
  /\ InRetry /\ pc = "sleep"
  /\ attempt' = attempt + 1
  /\ pc' = "loop"
  /\ UNCHANGED <<op, options, lastError, events, response, result, settled>>
  /\ UNCHANGED <<input, count, balance>>

(***************************************************************************)
(* apiRequest as a top-level operation                                     *)
(***************************************************************************)
ApiRequestCall ==
  /\ op = "none"
  /\ op' = "apiRequest"
  /\ pc' = "fetch"
  /\ events' = Append(events, [ev |-> "fetch"])
  /\ UNCHANGED <<options, attempt, lastError, response, result, settled>>
  /\ UNCHANGED <<input, count, balance>>

\* await fetch(url, options) throws
ApiRequestFetchRejects ==
  /\ op = "apiRequest" /\ pc = "fetch"
  /\ \E f \in FetchOutcomes :
       /\ f.state = "rejected"
       /\ events' = Append(events, [ev |-> "fetched", outcome |-> f])
       /\ settled' = ApiRequest(f)
  /\ pc' = "done"
  /\ UNCHANGED <<op, options, attempt, lastError, response, result>>
  /\ UNCHANGED <<input, count, balance>>

\* await fetch(url, options) yields a response
ApiRequestFetchResolves ==
  /\ op = "apiRequest" /\ pc = "fetch"
  /\ \E f \in FetchOutcomes :
       /\ f.state = "fulfilled"
       /\ response' = f.value
  /\ pc' = "response"
  /\ UNCHANGED <<op, options, attempt, lastError, events, result, settled>>
  /\ UNCHANGED <<input, count, balance>>

\* the rest of the try block and the catch block
ApiRequestSettles ==
  /\ op = "apiRequest" /\ pc = "response"
  /\ settled' = ApiRequest(Fulfilled(response))
  /\ pc' = "done"
  /\ UNCHANGED <<op, options, attempt, lastError, events, response, result>>
  /\ UNCHANGED <<input, count, balance>>

(***************************************************************************)
(* fetchData, ErrorBoundary.run and runWithBoundary                        *)
(***************************************************************************)
\* fetchData as a function of what fetch settles with: it logs and re-throws
FetchData(fetched) ==
  IF fetched.state = "rejected"
    THEN fetched
    ELSE IF ~fetched.value.ok
      THEN Rejected(NewError("Error", "HTTP error " \o String(Num(fetched.value.status)), 0))
      ELSE ResponseJson(fetched.value)

\* what the fn passed to an arbitrary boundary.run can settle with
RunValues == JsonValues \cup {Undefined}
RunErrors == FnErrors \cup {Null, Undefined, Num(0), Num(42), Bool(FALSE)}

\* the Error the catch block of run passes to errorHandler
HandlerArgument(error) ==
  IF InstanceofError(error)
    THEN error
    ELSE NewError("Error", "Unknown error: " \o String(error), 0)

\* the calls of errorHandler that run makes when fn settled with out
RunHandlerCalls(out) ==
  IF out.state = "rejected"
    THEN << [ev |-> "errorHandler", error |-> HandlerArgument(out.value)] >>
    ELSE << >>

\* variant: the catch block re-throws after calling errorHandler
RunRethrows(out) == out

\* how the promise of run settles when fn settled with out
Run(out) == IF out.state = "rejected" THEN Fulfilled(Null) ELSE Fulfilled(out.value)

\* if (result)
ResultBranch(r) == Truthy(r)

RunCall ==
  /\ op = "none"
  /\ op' = "run"
  /\ pc' = "fn"
  /\ events' = Append(events, [ev |-> "fn"])
  /\ UNCHANGED <<options, attempt, lastError, response, result, settled>>
  /\ UNCHANGED <<input, count, balance>>

\* return await fn(), fn resolved
RunFnResolves ==
  /\ op = "run" /\ pc = "fn"
  /\ \E v \in RunValues :
       /\ events' = events \o <<[ev |-> "settled", outcome |-> Fulfilled(v)]>>
            \o RunHandlerCalls(Fulfilled(v))
       /\ settled' = Run(Fulfilled(v))
  /\ pc' = "done"
  /\ UNCHANGED <<op, options, attempt, lastError, response, result>>
  /\ UNCHANGED <<input, count, balance>>

\* await fn() throws because the promise fn returned rejected
RunFnRejects ==
  /\ op = "run" /\ pc = "fn"
  /\ \E e \in RunErrors :
       /\ events' = events \o <<[ev |-> "settled", outcome |-> Rejected(e)]>>
            \o RunHandlerCalls(Rejected(e))
       /\ settled' = Run(Rejected(e))
  /\ pc' = "done"
  /\ UNCHANGED <<op, options, attempt, lastError, response, result>>
  /\ UNCHANGED <<input, count, balance>>

\* fn() itself throws before returning a promise: the same catch block
RunFnThrows ==
  /\ op = "run" /\ pc = "fn"
  /\ \E e \in RunErrors :
       /\ events' = events \o <<[ev |-> "threw", outcome |-> Rejected(e)]>>
            \o RunHandlerCalls(Rejected(e))
       /\ settled' = Run(Rejected(e))
  /\ pc' = "done"
  /\ UNCHANGED <<op, options, attempt, lastError, response, result>>
  /\ UNCHANGED <<input, count, balance>>

RunWithBoundaryCall ==
  /\ op = "none"
  /\ op' = "runWithBoundary"
  /\ pc' = "fetch"
  /\ events' = Append(events, [ev |-> "fetch"])
  /\ UNCHANGED <<options, attempt, lastError, response, result, settled>>
  /\ UNCHANGED <<input, count, balance>>

\* fetch settles, fetchData settles, boundary.run settles: result is assigned
RunWithBoundaryFetched ==
  /\ op = "runWithBoundary" /\ pc = "fetch"
  /\ \E f \in FetchOutcomes :
       LET out == FetchData(f)
       IN /\ response' = IF f.state = "fulfilled" THEN f.value ELSE NoResponse
          /\ events' = events
               \o <<[ev |-> "settled", outcome |-> out]>>
               \o (IF out.state = "rejected"
                     THEN << [ev |-> "console.error",
                              text |-> IF InstanceofError(out.value)
                                         THEN "Failed to fetch data:"
                                         ELSE "Unknown error:"] >>
                     ELSE << >>)
               \o RunHandlerCalls(out)
          /\ result' = Run(out).value
  /\ pc' = "branch"
  /\ UNCHANGED <<op, options, attempt, lastError, settled>>
  /\ UNCHANGED <<input, count, balance>>

\* if (result) ... else ...
RunWithBoundaryBranch ==
  /\ op = "runWithBoundary" /\ pc = "branch"
  /\ events' = Append(events,
       IF ResultBranch(result)
         THEN [ev |-> "console.log", text |-> "Got result:"]
         ELSE [ev |-> "console.log", text |-> "Operation failed, using fallback"])
  /\ settled' = Fulfilled(Undefined)
  /\ pc' = "done"
  /\ UNCHANGED <<op, options, attempt, lastError, response, result>>
  /\ UNCHANGED <<input, count, balance>>


(***************************************************************************)
(* Synchronous functions: how a call completes.                            *)
(***************************************************************************)
Returned(v) == [state |-> "returned", value |-> v]
Threw(e) == [state |-> "threw", value |-> e]

\* typeof value
TypeOf(v) ==
  CASE v.type = "undefined" -> "undefined"
    [] v.type = "boolean" -> "boolean"
    [] v.type = "number" -> "number"
    [] v.type = "string" -> "string"
    [] OTHER -> "object"

\* s.toUpperCase() for the strings of the model
ToUpperCase(s) ==
  CASE s = "" -> ""
    [] s = "text" -> "TEXT"
    [] s = "oops" -> "OOPS"

\* values of type unknown / any
AnyValues == JsonValues \cup {Undefined} \cup FnErrors

\* values of type string | null | undefined
NullableStrings == {Str(""), Str("text"), Null, Undefined}

(***************************************************************************)
(* Assertion functions and their users                                     *)
(* (unnamed/part_000, advanceTypes.ts, errorsHandling.ts)                  *)
(***************************************************************************)
\* variant: only null is rejected
AssertNonNullOnlyNull(value, message) ==
  IF value = Null THEN Threw(NewError("Error", message, 0)) ELSE Returned(Undefined)

\* assertNonNull(value, message)
AssertNonNull(value, message) ==
  IF value = Null \/ value = Undefined
    THEN Threw(NewError("Error", message, 0))
    ELSE Returned(Undefined)

\* assertIsString(value, message) of unnamed/part_000 and advanceTypes.ts
AssertIsString(value, message) ==
  IF TypeOf(value) # "string"
    THEN Threw(NewError("Error", message, 0))
    ELSE Returned(Undefined)

\* assertIsString(value, message) of errorsHandling.ts
AssertIsStringDetailed(value, message) ==
  IF TypeOf(value) # "string"
    THEN Threw(NewError("Error",
           message \o " (expected string, got " \o TypeOf(value) \o ")", 0))
    ELSE Returned(Undefined)

\* the assertion functions called on their own
AssertionFunctions == {"assertNonNull", "assertIsString", "assertIsStringDetailed"}

\* processInput is the one of errorsHandling.ts, processInputAdvanced the one
\* of advanceTypes.ts; capitalizeInput and processValue are of unnamed/part_000
AssertionUsers == {"processInput", "processInputAdvanced", "capitalizeInput", "processValue"}

\* the name of the assertion function the running operation calls
AssertionOf(f) ==
  CASE f \in {"assertNonNull", "processValue"} -> "assertNonNull"
    [] f \in {"assertIsStringDetailed", "processInput"} -> "assertIsStringDetailed"
    [] OTHER -> "assertIsString"

\* the message the running operation passes
AssertionMessage(f) ==
  IF AssertionOf(f) = "assertNonNull" THEN "Value cannot be null" ELSE "Input must be a string"

\* the call of the assertion function
Assertion(f, value) ==
  CASE AssertionOf(f) = "assertNonNull" -> AssertNonNull(value, AssertionMessage(f))
    [] AssertionOf(f) = "assertIsStringDetailed" ->
         AssertIsStringDetailed(value, AssertionMessage(f))
    [] OTHER -> AssertIsString(value, AssertionMessage(f))

\* the arguments the parameter type of f admits
ArgumentsOf(f) == IF f = "processValue" THEN NullableStrings ELSE AnyValues

\* an assertion function or one of its users is called with one argument
AssertionCall ==
  /\ op = "none"
  /\ \E f \in AssertionFunctions \cup AssertionUsers :
       /\ op' = f
       /\ \E v \in ArgumentsOf(f) : input' = <<v>>
  /\ pc' = "assert"
  /\ UNCHANGED <<options, attempt, lastError, events, response, result, settled>>
  /\ UNCHANGED <<count, balance>>

\* the assertion runs: it returns or throws; a throw ends the caller too
AssertionStep ==
  /\ op \in AssertionFunctions \cup AssertionUsers
  /\ pc = "assert"
  /\ LET out == Assertion(op, input[1])
     IN /\ events' = Append(events,
             [ev |-> "assert", fn |-> AssertionOf(op), value |-> input[1], outcome |-> out])
        /\ IF op \in AssertionUsers /\ out.state = "returned"
             THEN pc' = "toUpperCase" /\ UNCHANGED settled
             ELSE pc' = "done" /\ settled' = out
  /\ UNCHANGED <<op, options, attempt, lastError, response, result>>
  /\ UNCHANGED <<input, count, balance>>

\* return input.toUpperCase()
ToUpperCaseStep ==
  /\ op \in AssertionUsers
  /\ pc = "toUpperCase"
  /\ events' = Append(events, [ev |-> "toUpperCase", receiver |-> input[1]])
  /\ settled' =
       IF TypeOf(input[1]) = "string"
         THEN Returned(Str(ToUpperCase(input[1].s)))
         ELSE Threw(NewError("TypeError", "toUpperCase is not a function", 0))
  /\ pc' = "done"
  /\ UNCHANGED <<op, options, attempt, lastError, response, result>>
  /\ UNCHANGED <<input, count, balance>>


(***************************************************************************)
(* divide, performDivision and divideEither (errorsHandling.ts)            *)
(***************************************************************************)
Operands == (0 - MaxOperand)..MaxOperand

\* a / b for b # 0, as a fraction with a positive denominator
Quotient(a, b) == IF b < 0 THEN Frac(0 - a, 0 - b) ELSE Frac(a, b)

\* divide(a, b)
Divide(a, b) ==
  IF b = 0
    THEN [success |-> FALSE, error |-> NewError("Error", "Division by zero", 0)]
    ELSE [success |-> TRUE, value |-> Quotient(a, b)]

\* left(error) and right(value)
Left(error) == [tag |-> "left", error |-> error]
Right(value) == [tag |-> "right", value |-> value]

\* variant: the dividend is tested instead of the divisor
DivideEitherTestsDividend(a, b) ==
  IF a = 0 THEN Left("Division by zero") ELSE Right(Quotient(a, b))

\* divideEither(a, b)
DivideEither(a, b) ==
  IF b = 0 THEN Left("Division by zero") ELSE Right(Quotient(a, b))

\* the value performDivision(a, b) returns: the quotient or null
PerformDivision(a, b) ==
  LET r == Divide(a, b)
  IN IF r.success THEN r.value ELSE Null

\* one pair of operands is given to divide, divideEither and performDivision
DivisionCall ==
  /\ op = "none"
  /\ op' = "division"
  /\ \E a \in Operands, b \in Operands : input' = <<Num(a), Num(b)>>
  /\ pc' = "divide"
  /\ UNCHANGED <<options, attempt, lastError, events, response, result, settled>>
  /\ UNCHANGED <<count, balance>>

DivideStep ==
  /\ op = "division" /\ pc = "divide"
  /\ events' = Append(events, [ev |-> "divide", ret |-> Divide(input[1].n, input[2].n)])
  /\ pc' = "divideEither"
  /\ UNCHANGED <<op, options, attempt, lastError, response, result, settled>>
  /\ UNCHANGED <<input, count, balance>>

DivideEitherStep ==
  /\ op = "division" /\ pc = "divideEither"
  /\ events' = Append(events,
       [ev |-> "divideEither", ret |-> DivideEither(input[1].n, input[2].n)])
  /\ pc' = "performDivision"
  /\ UNCHANGED <<op, options, attempt, lastError, response, result, settled>>
  /\ UNCHANGED <<input, count, balance>>

\* performDivision logs the message of the error before it returns null
PerformDivisionStep ==
  /\ op = "division" /\ pc = "performDivision"
  /\ LET r == Divide(input[1].n, input[2].n)
     IN events' = events \o
          (IF r.success
             THEN << >>
             ELSE << [ev |-> "console.error", text |-> r.error.message] >>)
  /\ settled' = Returned(PerformDivision(input[1].n, input[2].n))
  /\ pc' = "done"
  /\ UNCHANGED <<op, options, attempt, lastError, response, result>>
  /\ UNCHANGED <<input, count, balance>>


(***************************************************************************)
(* Container (generics.ts) and BankAccount (classes&interface.ts): calls   *)
(* on the classes and on the module's account, interleaved with calls of   *)
(* divide.  Every call is recorded with its arguments and its result.      *)
(***************************************************************************)
ContainerValues == {Num(42), Str("hello")}
DepositAmounts == {-50, 0, 50, 100}
SessionOperands == {<<1, 2>>, <<1, 0>>}

InSession == op \in {"none", "session"} /\ Len(events) < MaxCalls

Call(fn, args, ret) == [ev |-> "call", fn |-> fn, args |-> args, ret |-> ret]

\* Container.count++
NextCount(c) == c + 1

\* variant: balance = amount
DepositAssigns(b, amount) == amount

\* this.balance += amount
DepositBalance(b, amount) == b + amount

\* new Container(value)
ContainerNew ==
  /\ InSession
  /\ \E v \in ContainerValues :
       events' = Append(events,
         Call("Container", <<v>>, Returned([type |-> "Container", value |-> v])))
  /\ count' = NextCount(count)
  /\ op' = "session" /\ pc' = "session"
  /\ UNCHANGED <<options, attempt, lastError, response, result, settled, input, balance>>

\* Container.getCount()
ContainerGetCount ==
  /\ InSession
  /\ events' = Append(events, Call("getCount", << >>, Returned(Num(count))))
  /\ op' = "session" /\ pc' = "session"
  /\ UNCHANGED <<options, attempt, lastError, response, result, settled, input>>
  /\ UNCHANGED <<count, balance>>

\* account.deposit(amount)
AccountDeposit ==
  /\ InSession
  /\ \E amount \in DepositAmounts :
       IF amount <= 0
         THEN /\ events' = Append(events,
                   Call("deposit", <<Num(amount)>>,
                        Threw(NewError("Error", "Deposit amount must be positive", 0))))
              /\ UNCHANGED balance
         ELSE /\ events' = Append(events,
                   Call("deposit", <<Num(amount)>>, Returned(Undefined)))
              /\ balance' = DepositBalance(balance, amount)
  /\ op' = "session" /\ pc' = "session"
  /\ UNCHANGED <<options, attempt, lastError, response, result, settled, input, count>>

\* account.getBalance()
AccountGetBalance ==
  /\ InSession
  /\ events' = Append(events, Call("getBalance", << >>, Returned(Num(balance))))
  /\ op' = "session" /\ pc' = "session"
  /\ UNCHANGED <<options, attempt, lastError, response, result, settled, input>>
  /\ UNCHANGED <<count, balance>>

\* divide(a, b), a function without state
SessionDivide ==
  /\ InSession
  /\ \E ab \in SessionOperands :
       events' = Append(events,
         Call("divide", <<Num(ab[1]), Num(ab[2])>>, Returned(Divide(ab[1], ab[2]))))
  /\ op' = "session" /\ pc' = "session"
  /\ UNCHANGED <<options, attempt, lastError, response, result, settled, input>>
  /\ UNCHANGED <<count, balance>>


(***************************************************************************)
(* isOfType (unnamed/part_000)                                             *)
(***************************************************************************)
PropertyNames == {"drive", "code", "message"}

\* property in value, for a value that is an object
HasProperty(v, property) ==
  CASE v.type = "object" ->
         \/ property = "code" /\ v.code # Undefined
         \/ property = "message" /\ v.message # Undefined
    [] v.type = "error" ->
         \/ property = "message"
         \/ property = "code" /\ v.cls = "ApiError"
    [] OTHER -> FALSE

\* whether "property in value" throws a TypeError: the right operand is no object
InThrows(v) == TypeOf(v) # "object" \/ v.type = "null"

\* isOfType(value, property): value && property in value
IsOfType(value, property) ==
  IF ~Truthy(value)
    THEN Returned(value)
    ELSE IF InThrows(value)
      THEN Threw(NewError("TypeError", "Cannot use 'in' operator", 0))
      ELSE Returned(Bool(HasProperty(value, property)))

IsOfTypeCall ==
  /\ op = "none"
  /\ op' = "isOfType"
  /\ \E v \in AnyValues, property \in PropertyNames : input' = <<v, Str(property)>>
  /\ pc' = "isOfType"
  /\ UNCHANGED <<options, attempt, lastError, events, response, result, settled>>
  /\ UNCHANGED <<count, balance>>

IsOfTypeStep ==
  /\ op = "isOfType" /\ pc = "isOfType"
  /\ settled' = IsOfType(input[1], input[2].s)
  /\ pc' = "done"
  /\ UNCHANGED <<op, options, attempt, lastError, events, response, result>>
  /\ UNCHANGED <<input, count, balance>>

(***************************************************************************)
(* The specification                                                       *)
(***************************************************************************)
Init ==
  /\ op = "none"
  /\ pc = "idle"
  /\ options = DefaultOptions
  /\ attempt = 0
  /\ lastError = Undefined
  /\ events = << >>
  /\ response = NoResponse
  /\ result = Undefined
  /\ settled = Pending
  /\ input = << >>
  /\ count = ContainersAtLoad
  /\ balance = InitialBalance

Next ==
  \/ WithRetryCall
  \/ FetchUserWithRetryCall
  \/ WithRetryLoop
  \/ WithRetryFnResolves
  \/ WithRetryFnRejects
  \/ WithRetryTimer
  \/ ApiRequestCall
  \/ ApiRequestFetchRejects
  \/ ApiRequestFetchResolves
  \/ ApiRequestSettles
  \/ RunCall
  \/ RunFnResolves
  \/ RunFnRejects
  \/ RunFnThrows
  \/ RunWithBoundaryCall
  \/ RunWithBoundaryFetched
  \/ RunWithBoundaryBranch
  \/ AssertionCall
  \/ AssertionStep
  \/ ToUpperCaseStep
  \/ DivisionCall
  \/ DivideStep
  \/ DivideEitherStep
  \/ PerformDivisionStep
  \/ ContainerNew
  \/ ContainerGetCount
  \/ AccountDeposit
  \/ AccountGetBalance
  \/ SessionDivide
  \/ IsOfTypeCall
  \/ IsOfTypeStep

Spec == Init /\ [][Next]_vars

Done == pc = "done"

(***************************************************************************)
(* Properties of withRetry                                                 *)
(***************************************************************************)
IsTimer(e) == e.ev = "setTimeout"
IsSettle(e) == e.ev = "settled"

\* the delays waited so far, in order
Timers == SelectSeq(events, IsTimer)

\* how the invocations of fn settled so far, in order
Settles == SelectSeq(events, IsSettle)

\* an ApiError with status >= 500, as the retry contract words it
ServerError(e) == e.type = "error" /\ e.cls = "ApiError" /\ e.status >= 500

\* C1: with maxRetries = N >= 1, one call of withRetry invokes fn at most N
\* times, and at least once by the time it settles.
C1_InvocationsBounded ==
  (InRetry /\ options.maxRetries >= 1) =>
    /\ Calls <= options.maxRetries
    /\ Done => Calls >= 1

C1_Witness ==
  /\ op = "withRetry" /\ Done
  /\ options.maxRetries = 3
  /\ Calls = 3

\* C2: when an invocation of fn rejects with anything but an ApiError with
\* status >= 500, withRetry has rejected with that same error and nothing
\* follows the rejection: no log, no timer, no further invocation of fn.
C2_NonRetryableRejectsAtOnce ==
  InRetry =>
    \A i \in DOMAIN events :
      (/\ events[i].ev = "settled"
       /\ events[i].outcome.state = "rejected"
       /\ ~ServerError(events[i].outcome.value)) =>
        /\ i = Len(events)
        /\ Done
        /\ settled = Rejected(events[i].outcome.value)

C2_Witness ==
  /\ op = "withRetry" /\ Done
  /\ Calls = 2
  /\ settled.state = "rejected"
  /\ settled.value.type = "error"
  /\ settled.value.cls = "ApiError"
  /\ settled.value.status = 404
  /\ Len(Timers) = 1

\* C3: when the k-th invocation of fn resolves with v (after k-1 retryable
\* failures), withRetry has resolved with v and fn is not invoked again.
C3_ResolvesWithFirstSuccess ==
  InRetry =>
    \A i \in DOMAIN events :
      (events[i].ev = "settled" /\ events[i].outcome.state = "fulfilled") =>
        /\ i = Len(events)
        /\ Done
        /\ settled = Fulfilled(events[i].outcome.value)
        /\ Calls <= options.maxRetries
        /\ Len(Settles) = Calls

C3_Witness ==
  /\ op = "fetchUserWithRetry" /\ Done
  /\ settled.state = "fulfilled"
  /\ Calls = 3
  /\ Len(Timers) = 2

\* C4: when all maxRetries invocations of fn rejected with retryable errors,
\* withRetry rejects with the error of the last invocation.
C4_RejectsWithLastError ==
  (/\ InRetry /\ Done
   /\ options.maxRetries >= 1
   /\ Len(Settles) = options.maxRetries
   /\ \A k \in DOMAIN Settles :
        Settles[k].outcome.state = "rejected" /\ ServerError(Settles[k].outcome.value)) =>
    /\ settled = Rejected(Settles[Len(Settles)].outcome.value)
    /\ settled.value.id = options.maxRetries

C4_Witness ==
  /\ op = "withRetry" /\ Done
  /\ options.maxRetries = 3
  /\ Len(Settles) = 3
  /\ \A k \in DOMAIN Settles :
       Settles[k].outcome.state = "rejected" /\ ServerError(Settles[k].outcome.value)
  /\ Settles[1].outcome.value.status = 500
  /\ settled.state = "rejected"
  /\ ServerError(settled.value)
  /\ settled.value.status = 503

\* C5: once withRetry has settled, every announcement of a retry (the log
\* "Retrying after ...") is followed by a further invocation of fn.
C5_AnnouncedRetryHappens ==
  (InRetry /\ Done) =>
    \A i \in DOMAIN events :
      events[i].ev = "console.log" =>
        \E j \in DOMAIN events : j > i /\ events[j].ev = "fn"

\* C6: the k-th delay waited (after the failed attempt with 0-based index
\* k - 1) is delay * backoffFactor^(k-1): 300, 600, 1200 for the default
\* options; with backoffFactor >= 1 the delays never decrease.
C6_DelaysBackOff ==
  InRetry =>
    LET f == options.backoffFactor
        defaults == <<300, 600, 1200>>
    IN /\ \A k \in DOMAIN Timers :
            FracEq(Timers[k].ms, Frac(options.delay * f.num ^ (k - 1), f.den ^ (k - 1)))
       /\ f.num >= f.den =>
            \A k \in DOMAIN Timers :
              k < Len(Timers) => FracLeq(Timers[k].ms, Timers[k + 1].ms)
       /\ options = DefaultOptions =>
            \A k \in DOMAIN Timers : FracEq(Timers[k].ms, Frac(defaults[k], 1))

C6_Witness ==
  /\ op = "withRetry" /\ Done
  /\ options = DefaultOptions
  /\ Len(Timers) = 3
  /\ FracEq(Timers[3].ms, Frac(1200, 1))

(***************************************************************************)
(* Properties of apiRequest                                                *)
(***************************************************************************)
IsApiError(e) == e.type = "error" /\ e.cls = "ApiError"

\* C7: apiRequest rejects with ApiError instances only; when fetch rejected
\* or the body of an ok response did not parse, the rejection is an ApiError
\* with status 0 and code CLIENT_ERROR carrying the message of the original
\* Error ("Unknown error" for a value that is no Error). The same holds of
\* every rejection fetchUserWithRetry sees from its fn.
C7_RejectsWithApiErrorOnly ==
  /\ (op = "apiRequest" /\ Done /\ settled.state = "rejected") =>
       /\ IsApiError(settled.value)
       /\ (response = NoResponse \/ response.ok) =>
            /\ settled.value.status = 0
            /\ settled.value.code = "CLIENT_ERROR"
       /\ response = NoResponse =>
            LET e == events[Len(events)].outcome.value
            IN settled.value.message =
                 (IF e.type = "error" THEN e.message ELSE "Unknown error")
       /\ response.ok => settled.value.message = "Unexpected token in JSON"
  /\ op = "fetchUserWithRetry" =>
       \A k \in DOMAIN Settles :
         Settles[k].outcome.state = "rejected" => IsApiError(Settles[k].outcome.value)

C7_Witness ==
  /\ op = "apiRequest" /\ Done
  /\ response.ok
  /\ response.body.kind = "invalid"
  /\ settled.state = "rejected"
  /\ IsApiError(settled.value)
  /\ settled.value.status = 0

\* C8: for every response with ok = false, whatever its body, apiRequest
\* rejects with an ApiError whose status is the status of the response.
C8_StatusOfResponseKept ==
  (op = "apiRequest" /\ Done /\ response # NoResponse /\ ~response.ok) =>
    /\ settled.state = "rejected"
    /\ IsApiError(settled.value)
    /\ settled.value.status = response.status

(***************************************************************************)
(* Properties of ErrorBoundary.run and runWithBoundary                     *)
(***************************************************************************)
IsHandlerCall(e) == e.ev = "errorHandler"
HandlerCalls == SelectSeq(events, IsHandlerCall)

\* String(v) of the values fn fails with, written out
Stringified(v) ==
  CASE v = Null -> "null"
    [] v = Undefined -> "undefined"
    [] v = Num(0) -> "0"
    [] v = Num(42) -> "42"
    [] v = Bool(FALSE) -> "false"
    [] v = Str("oops") -> "oops"

Logged(text) == \E i \in DOMAIN events : events[i].ev = "console.log" /\ events[i].text = text

\* C10: runWithBoundary logs "Operation failed, using fallback" only when the
\* error handler of the boundary was called, and logs "Got result:" for every
\* value fetchData resolved with.
C10_FallbackOnlyOnFailure ==
  (op = "runWithBoundary" /\ Done) =>
    /\ Logged("Operation failed, using fallback") => Len(HandlerCalls) >= 1
    /\ \A k \in DOMAIN Settles :
         Settles[k].outcome.state = "fulfilled" => Logged("Got result:")

(***************************************************************************)
(* Properties of the assertion functions                                   *)
(***************************************************************************)
\* C11: assertIsString returns normally exactly for strings and
\* assertNonNull exactly for values other than null and undefined, both
\* throw an Error otherwise; so toUpperCase is only ever called on a string
\* in processInput, capitalizeInput and processValue.
C11_AssertionsGuardToUpperCase ==
  \A i \in DOMAIN events :
    /\ events[i].ev = "assert" =>
         /\ events[i].fn \in {"assertIsString", "assertIsStringDetailed"} =>
              (events[i].outcome.state = "returned" <=> events[i].value.type = "string")
         /\ events[i].fn = "assertNonNull" =>
              (events[i].outcome.state = "returned"
                 <=> events[i].value.type \notin {"null", "undefined"})
         /\ events[i].outcome.state # "returned" =>
              /\ events[i].outcome.state = "threw"
              /\ events[i].outcome.value.type = "error"
    /\ events[i].ev = "toUpperCase" => events[i].receiver.type = "string"

C11_Witness ==
  /\ op = "processValue" /\ Done
  /\ input = <<Str("text")>>
  /\ Len(events) = 2
  /\ events[2].ev = "toUpperCase"
  /\ settled = Returned(Str("TEXT"))

(***************************************************************************)
(* Properties of divide and divideEither                                   *)
(***************************************************************************)
\* C12: for all a and b, divide(a, b) fails exactly when divideEither(a, b)
\* is a left, exactly when b = 0; otherwise both carry the quotient a / b;
\* performDivision(a, b) returns null exactly when b = 0.
C12_DivideAgreesWithDivideEither ==
  (op = "division" /\ Done) =>
    LET a == input[1].n
        b == input[2].n
        d == events[1].ret
        e == events[2].ret
    IN /\ ~d.success <=> e.tag = "left"
       /\ e.tag = "left" <=> b = 0
       /\ b # 0 =>
            /\ FracEq(d.value, e.value)
            /\ d.value.num * b = a * d.value.den
            /\ d.value.den # 0
       /\ settled.state = "returned"
       /\ settled.value = Null <=> b = 0
       /\ b # 0 => settled.value = d.value

C12_Witness ==
  /\ op = "division" /\ Done
  /\ input = <<Num(3), Num(0)>>
  /\ ~events[1].ret.success
  /\ events[2].ret.tag = "left"
  /\ settled = Returned(Null)

(***************************************************************************)
(* State kept across calls                                                 *)
(***************************************************************************)
\* number of Containers constructed by the first n calls
RECURSIVE ConstructedBy(_)
ConstructedBy(n) ==
  IF n = 0 THEN 0
  ELSE ConstructedBy(n - 1) + (IF events[n].fn = "Container" THEN 1 ELSE 0)

\* sum of the positive amounts deposited by the first n calls
RECURSIVE DepositedBy(_)
DepositedBy(n) ==
  IF n = 0 THEN 0
  ELSE DepositedBy(n - 1)
         + (IF events[n].fn = "deposit" /\ events[n].args[1].n > 0
              THEN events[n].args[1].n ELSE 0)

\* C13 as stated: whatever calls were made before, two calls of the same
\* operation with the same arguments return the same result.
C13_SameArgumentsSameResult ==
  op = "session" =>
    \A i, j \in DOMAIN events :
      (events[i].fn = events[j].fn /\ events[i].args = events[j].args) =>
        events[i].ret = events[j].ret

\* C13 amended: Container and BankAccount keep state across calls.
\* getCount() returns the number of Containers constructed so far and
\* getBalance() the opening balance plus the positive amounts deposited so
\* far; deposit rejects amounts <= 0; divide, which has no state, returns
\* the same result for the same arguments whatever was called before.
C13_StateKeptAcrossCalls ==
  op = "session" =>
    /\ count = ContainersAtLoad + ConstructedBy(Len(events))
    /\ balance = InitialBalance + DepositedBy(Len(events))
    /\ \A i \in DOMAIN events :
         /\ events[i].fn = "getCount" =>
              events[i].ret = Returned(Num(ContainersAtLoad + ConstructedBy(i - 1)))
         /\ events[i].fn = "getBalance" =>
              events[i].ret = Returned(Num(InitialBalance + DepositedBy(i - 1)))
         /\ events[i].fn = "deposit" =>
              (events[i].ret.state = "threw" <=> events[i].args[1].n <= 0)
    /\ \A i, j \in DOMAIN events :
         (events[i].fn = "divide" /\ events[j].fn = "divide"
            /\ events[i].args = events[j].args) =>
           events[i].ret = events[j].ret

C13_Witness ==
  /\ op = "session"
  /\ Len(events) = 3
  /\ events[1].fn = "getBalance" /\ events[1].ret = Returned(Num(1000))
  /\ events[2].fn = "deposit" /\ events[2].ret.state = "returned"
  /\ events[3].fn = "getBalance" /\ events[3].ret = Returned(Num(1050))

(***************************************************************************)
(* Properties of isOfType                                                  *)
(***************************************************************************)
\* C14: for every value, isOfType(value, property) returns a boolean without
\* throwing, true exactly when value is an object that has the property.
C14_IsOfTypeTotal ==
  (op = "isOfType" /\ Done) =>
    /\ settled.state = "returned"
    /\ settled.value.type = "boolean"
    /\ settled.value.b <=>
         (input[1].type \in {"object", "error"} /\ HasProperty(input[1], input[2].s))

====
